---- MODULE Spec2Model ----
(***************************************************************************)
(* A model of app.py: the shared gallery index (face_database), its build *)
(* by load_database under db_load_lock, the start-up code of __main__     *)
(* (snapshot load or background build) and the /match request handler.    *)
(* File names are tuples of one-character strings, so that allowed_file,  *)
(* secure_filename and os.path.splitext are computed as the code computes *)
(* them.                                                                  *)
(***************************************************************************)
EXTENDS Integers, Sequences, FiniteSets, TLC

\* ------------------------------------------------------------------ bounds
NumLoaders == 2
NumRequests == 2
MaxFiles == 2
MaxFaults == 1

Loaders == 1..NumLoaders
Requests == 1..NumRequests

\* ------------------------------------------------------- strings and paths
\* Python's None and a present value, both as sequences so that any two
\* optional values can be compared.
None == <<>>
Some(x) == <<x>>
The(o) == o[1]

\* str.lower() on the characters the model's file names use.
Lower(c) ==
    CASE c = "P" -> "p"
      [] c = "N" -> "n"
      [] c = "G" -> "g"
      [] c = "J" -> "j"
      [] OTHER -> c

LowerStr(s) == [i \in 1..Len(s) |-> Lower(s[i])]

ALLOWED_EXTENSIONS ==
    { <<"p","n","g">>, <<"j","p","g">>, <<"j","p","e","g">>, <<"w","e","b","p">> }

HasDot(s) == \E i \in 1..Len(s) : s[i] = "."

LastDot(s) == CHOOSE i \in 1..Len(s) : s[i] = "." /\ \A j \in (i+1)..Len(s) : s[j] # "."

\* filename.rsplit('.', 1)[1]
RsplitExt(s) == SubSeq(s, LastDot(s) + 1, Len(s))

allowed_file(fname) ==
    HasDot(fname) /\ LowerStr(RsplitExt(fname)) \in ALLOWED_EXTENSIONS

\* os.path.splitext(filename)[0]: the part before the last dot, unless that
\* dot is only preceded by dots (a leading dot is no extension separator).
Splitext0(s) ==
    IF HasDot(s) /\ (\E j \in 1..(LastDot(s) - 1) : s[j] # ".")
    THEN SubSeq(s, 1, LastDot(s) - 1)
    ELSE s

\* werkzeug's secure_filename: path separators become spaces, runs of white
\* space become one "_", characters outside [A-Za-z0-9_.-] are dropped and
\* leading and trailing "." and "_" are stripped.
SafeChars ==
    { "a","b","c","d","e","f","g","j","n","p","t","w","x","y","z",
      "P","N","G","J","_",".","-" }

ReplaceSep(s) == [i \in 1..Len(s) |-> IF s[i] = "/" THEN " " ELSE s[i]]

RECURSIVE JoinSplit(_, _)
\* "_".join(s.split()), from position i on: white space is dropped, and a
\* word that is followed by white space and another word is followed by "_".
JoinSplit(s, i) ==
    IF i > Len(s) THEN <<>>
    ELSE IF s[i] = " " THEN JoinSplit(s, i + 1)
    ELSE <<s[i]>> \o
         (IF i < Len(s) /\ s[i + 1] = " " /\ (\E j \in (i + 1)..Len(s) : s[j] # " ")
          THEN <<"_">> ELSE <<>>) \o
         JoinSplit(s, i + 1)

\* s.strip("._")
Strip(s) ==
    LET keep == { i \in 1..Len(s) : s[i] \notin {".", "_"} }
    IN  IF keep = {} THEN <<>>
        ELSE SubSeq(s, CHOOSE i \in keep : \A j \in keep : i <= j,
                       CHOOSE i \in keep : \A j \in keep : i >= j)

secure_filename(name) ==
    CHOOSE result \in
        { Strip(kept) : kept \in
            { SelectSeq(joined, LAMBDA c : c \in SafeChars) : joined \in
                { JoinSplit(spaced, 1) : spaced \in {ReplaceSep(name)} } } } : TRUE

BEFORE_FOLDER_NAME == <<"b","e","f","o","r","e">>
AFTER_FOLDER_NAME == <<"a","f","t","e","r">>

\* os.path.join(folder, filename): a relative path of two components.
PathJoin(folder, fname) == <<folder, fname>>
\* os.path.basename(path)
Basename(path) == path[2]


\* ------------------------------------------------------------ environment
\* What the embedding provider (DeepFace.represent) does with an image: it
\* returns a list holding an embedding, returns an empty list, raises
\* ValueError, or raises another exception.
Vector(v) == [out |-> "vector", vec |-> v]
EmptyResult == [out |-> "empty", vec |-> <<>>]
RaisesValueError == [out |-> "ValueError", vec |-> <<>>]
RaisesException == [out |-> "Exception", vec |-> <<>>]

fA == <<"a",".","j","p","g">>
fB == <<"b",".","P","N","G">>
fC == <<"c",".","j","p","e","g">>
fD == <<"d",".","w","e","b","p">>
fE == <<"e",".","p","n","g">>
fT == <<"f",".","t","x","t">>
\* A second image of the stem of fA.
fA2 == <<"a",".","p","n","g">>

GalleryFiles == {fA, fB, fC, fD, fE, fT, fA2}

\* The image stored under each gallery file name, as the provider sees it.
GalleryImage(name) ==
    CASE name = fA -> Vector(<<2, 1>>)
      [] name = fB -> Vector(<<1, 2>>)
      [] name = fC -> RaisesValueError
      [] name = fD -> RaisesException
      [] name = fE -> EmptyResult
      [] OTHER -> Vector(<<1, 1>>)

\* scraped_data.json: missing/unreadable, or a list of items.
MetaMissing == [ok |-> FALSE, items |-> <<>>]
MetaList(items) == [ok |-> TRUE, items |-> items]
MetaItem(id, proc) == [case_id |-> id, procedure |-> proc]
\* A list whose second item has no case_id.
MetaNoKey == MetaList(<<MetaItem(<<"a">>, "p1"), [procedure |-> "p2"]>>)

\* face_db.pkl: missing, not unpicklable, or the pickle of some value.
CacheMissing == [st |-> "missing", data |-> <<>>]
CacheCorrupt == [st |-> "corrupt", data |-> <<>>]
CacheOf(bytes) == [st |-> "ok", data |-> bytes]

Record(before, after, emb, meta) ==
    [before_path |-> before, after_path |-> after, embedding |-> emb, metadata |-> meta]

\* A record as a build would have stored it, and one that is no gallery
\* record (its embedding is missing).
SnapRecord == Record(PathJoin(BEFORE_FOLDER_NAME, fA), None, Some(<<2, 1>>), None)
BadRecord == Record(PathJoin(BEFORE_FOLDER_NAME, fB), None, None, None)

\* The pickled form of one record.
RecordBytes(r) == <<r.before_path, r.after_path, r.embedding, r.metadata>>

Env(mode, exists, files, after, meta, cache) ==
    [mode |-> mode, exists |-> exists, files |-> files, after |-> after,
     meta |-> meta, cache |-> cache]

\* The environments of the concurrency specification: a few directories
\* and every kind of snapshot file.
ConcDirs == { S \in {{}, {fA}, {fA, fB}, {fC, fT}, {fA, fB, fE}} : Cardinality(S) <= MaxFiles }
ConcCaches ==
    { CacheMissing, CacheCorrupt, CacheOf(<<RecordBytes(SnapRecord)>>),
      CacheOf(<<RecordBytes(BadRecord)>>) }
ConcEnvs ==
    { Env("main", TRUE, S, {fA}, MetaList(<<MetaItem(<<"a">>, "p1")>>), c) :
          S \in ConcDirs, c \in ConcCaches }
    \cup { Env("imported", TRUE, S, {fA}, MetaList(<<MetaItem(<<"a">>, "p1")>>), CacheMissing) :
          S \in ConcDirs }
    \cup { Env(m, FALSE, {}, {}, MetaMissing, CacheMissing) : m \in {"main", "imported"} }

\* The JSON bodies match_face returns.
Failure(message, error_type) ==
    [success |-> FALSE, message |-> message, error_type |-> error_type,
     uploaded_image_url |-> None, matches |-> <<>>]

NotReadyResponse ==
    Failure("Face database is not ready. Please wait or contact administrator.", None)
NoFilePartResponse == Failure("No file part in the request.", None)
NoSelectedFileResponse == Failure("No selected file.", None)
NotAllowedResponse == Failure("File type not allowed.", None)
CouldNotProcessResponse == Failure("Could not process image", None)
UnexpectedErrorResponse ==
    Failure("An unexpected error occurred during image processing.", None)
DbCompareErrorResponse ==
    Failure("Could not compare with database entries.", Some("DB_COMPARE_ERROR"))
NoMatchFoundResponse ==
    Failure("No suitable matches found in the database.", Some("NO_MATCH_FOUND"))
InternalErrorResponse == Failure("An internal server error occurred.", None)

\* No response has been returned yet.
NoResponse == Failure("", None)

SuccessResponse(fname, matches) ==
    [success |-> TRUE, message |-> "matches found.", error_type |-> None,
     uploaded_image_url |-> Some(<<"uploads", fname>>), matches |-> matches]

\* ------------------------------------------------------------------ state
VARIABLES
    face_database,      \* the shared index: a sequence of records
    metadata_mapping,   \* case_id -> metadata item
    database_loaded,
    db_load_lock,       \* 0, or the invocation of load_database holding it
    run_mode,           \* "main" (python app.py) or "imported"
    before_exists,      \* database/images/before exists
    before_files,       \* its files
    after_files,        \* the files of database/images/after
    metadata_file,      \* scraped_data.json
    cosine_of_zero,     \* what the installed scipy returns for a zero vector
    cache_file,         \* face_db.pkl
    uploads,            \* the upload folder: file name -> image
    mainpc, loaded_from_cache,
    lpc, todo, temp_database, processed_files, failed_files,
    called_busy, at_call,
    rpc, upload, filename, uploaded_embedding, pending, response,
    saw_loaded, observed,
    faults,
    starts,             \* how many times the process has been started
    written_index       \* the index whose pickle the last snapshot write stored

envvars == <<run_mode, before_exists, before_files, after_files, metadata_file, cosine_of_zero>>
mainvars == <<mainpc, loaded_from_cache>>
loadvars == <<lpc, todo, temp_database, processed_files, failed_files, called_busy, at_call>>
sharedvars == <<face_database, metadata_mapping, database_loaded, db_load_lock>>
reqvars == <<rpc, upload, filename, uploaded_embedding, pending, response, saw_loaded, observed>>
histvars == <<starts, written_index>>
vars == <<sharedvars, envvars, cache_file, uploads, mainvars, loadvars, reqvars, faults, histvars>>

NoMapping == <<>>

InitWith(envs) ==
    \E e \in envs :
        /\ run_mode = e.mode
        /\ before_exists = e.exists
        /\ before_files = e.files
        /\ after_files = e.after
        /\ metadata_file = e.meta
        /\ cache_file = e.cache
        /\ face_database = <<>>
        /\ metadata_mapping = NoMapping
        /\ database_loaded = FALSE
        /\ db_load_lock = 0
        /\ uploads = <<>>
        /\ mainpc = "start"
        /\ loaded_from_cache = FALSE
        /\ lpc = [l \in Loaders |-> "idle"]
        /\ todo = [l \in Loaders |-> <<>>]
        /\ temp_database = [l \in Loaders |-> <<>>]
        /\ processed_files = [l \in Loaders |-> 0]
        /\ failed_files = [l \in Loaders |-> 0]
        /\ called_busy = [l \in Loaders |-> FALSE]
        /\ at_call = [l \in Loaders |-> <<>>]
        /\ rpc = [r \in Requests |-> "idle"]
        /\ upload = [r \in Requests |-> None]
        /\ filename = [r \in Requests |-> <<>>]
        /\ uploaded_embedding = [r \in Requests |-> <<>>]
        /\ pending = [r \in Requests |-> NoResponse]
        /\ response = [r \in Requests |-> NoResponse]
        /\ saw_loaded = [r \in Requests |-> None]
        /\ observed = [r \in Requests |-> None]
        /\ faults = 0
        /\ starts = 1
        /\ written_index = None

\* ---------------------------------------------------------------- helpers
\* pickle.dump / pickle.load of the record list: the file holds one tuple
\* per record, and loading rebuilds the records from the tuples.
Pickle(db) == [i \in 1..Len(db) |-> RecordBytes(db[i])]

\* A load that restores the paths and the embedding of each record and
\* not its metadata.
Unpickle_nometa(bytes) ==
    [i \in 1..Len(bytes) |-> Record(bytes[i][1], bytes[i][2], bytes[i][3], None)]

Unpickle(bytes) ==
    [i \in 1..Len(bytes) |-> Record(bytes[i][1], bytes[i][2], bytes[i][3], bytes[i][4])]

\* A metadata load that keeps the items read before one without case_id.
LoadMetadata_partial(src) ==
    IF src.ok
    THEN LET good == { i \in 1..Len(src.items) : "case_id" \in DOMAIN src.items[i] }
             ids == { src.items[i].case_id : i \in good }
             last(id) == CHOOSE i \in good :
                            /\ src.items[i].case_id = id
                            /\ \A j \in good : src.items[j].case_id = id => j <= i
         IN [id \in ids |-> src.items[last(id)]]
    ELSE NoMapping

\* json.load of scraped_data.json followed by
\* {item['case_id']: item for item in metadata_list}; any exception (a
\* missing file, an item without case_id) leaves the empty mapping.
LoadMetadata(src) ==
    IF src.ok /\ (\A i \in 1..Len(src.items) : "case_id" \in DOMAIN src.items[i])
    THEN LET ids == { src.items[i].case_id : i \in 1..Len(src.items) }
             last(id) == CHOOSE i \in 1..Len(src.items) :
                            /\ src.items[i].case_id = id
                            /\ \A j \in (i+1)..Len(src.items) : src.items[j].case_id # id
         IN [id \in ids |-> src.items[last(id)]]
    ELSE NoMapping

\* os.listdir returns the directory's names in an arbitrary order.
Listings(S) ==
    { s \in [1..Cardinality(S) -> S] : \A i, j \in 1..Cardinality(S) : s[i] = s[j] => i = j }

\* A lookup that does not test whether the after file exists.
find_corresponding_after_image_any(fname) == Some(PathJoin(AFTER_FOLDER_NAME, fname))

find_corresponding_after_image(fname) ==
    IF fname \in after_files THEN Some(PathJoin(AFTER_FOLDER_NAME, fname)) ELSE None

\* metadata_mapping.get(case_id)
MappingGet(mapping, id) == IF id \in DOMAIN mapping THEN Some(mapping[id]) ELSE None

\* A load_database that does not wait for the lock.
LockFree_always == TRUE

\* with db_load_lock: the lock can be taken.
LockFree == db_load_lock = 0

\* A load_database that does not look at the flag.
AlreadyLoaded_never == FALSE

\* if database_loaded: return
AlreadyLoaded == database_loaded

\* The program points of load_database at which db_load_lock is held and the
\* build is under way.
BodyPcs == {"body", "loop", "flag", "save"}

ClearLocals(l) ==
    /\ todo' = [todo EXCEPT ![l] = <<>>]
    /\ temp_database' = [temp_database EXCEPT ![l] = <<>>]
    /\ processed_files' = [processed_files EXCEPT ![l] = 0]
    /\ failed_files' = [failed_files EXCEPT ![l] = 0]

\* ------------------------------------------------------------- __main__
\* The module is imported by a server: the __main__ block does not run.
MainImported ==
    /\ mainpc = "start" /\ run_mode = "imported"
    /\ mainpc' = "serving"
    /\ UNCHANGED <<histvars, reqvars, sharedvars, envvars, cache_file, uploads, loaded_from_cache, loadvars, faults>>

\* os.makedirs of the upload, before and after folders.
MainEnsureFolders ==
    /\ mainpc = "start" /\ run_mode = "main"
    /\ before_exists' = TRUE
    /\ mainpc' = "cache"
    /\ UNCHANGED <<histvars, reqvars, sharedvars, run_mode, before_files, after_files, metadata_file,
                   cosine_of_zero,
                   cache_file, uploads, loaded_from_cache, loadvars, faults>>

\* A start-up that accepts a snapshot only when it holds records, and
\* otherwise goes on to the background build.
MainLoadCache_nonempty ==
    /\ mainpc = "cache"
    /\ IF cache_file.st = "ok" /\ cache_file.data # <<>>
       THEN /\ face_database' = Unpickle(cache_file.data)
            /\ database_loaded' = TRUE
            /\ loaded_from_cache' = TRUE
            /\ mainpc' = "metadata"
       ELSE /\ database_loaded' = FALSE
            /\ mainpc' = "spawn"
            /\ UNCHANGED <<reqvars, face_database, loaded_from_cache>>
    /\ UNCHANGED <<histvars, reqvars, metadata_mapping, db_load_lock, envvars, cache_file, uploads,
                   loadvars, faults>>

\* The snapshot is read: face_database = pickle.load(f).
MainLoadCache ==
    /\ mainpc = "cache"
    /\ IF cache_file.st = "ok"
       THEN /\ face_database' = Unpickle(cache_file.data)
            /\ database_loaded' = TRUE
            /\ loaded_from_cache' = TRUE
            /\ mainpc' = "metadata"
       ELSE /\ database_loaded' = FALSE
            /\ mainpc' = "spawn"
            /\ UNCHANGED <<reqvars, face_database, loaded_from_cache>>
    /\ UNCHANGED <<histvars, reqvars, metadata_mapping, db_load_lock, envvars, cache_file, uploads, loadvars, faults>>

\* db_thread = threading.Thread(target=load_database); db_thread.start()
MainStartThread ==
    /\ mainpc = "spawn"
    /\ metadata_mapping' = NoMapping
    /\ lpc' = [lpc EXCEPT ![1] = "waiting"]
    /\ at_call' = [at_call EXCEPT ![1] = <<face_database, database_loaded, cache_file>>]
    /\ mainpc' = "serving"
    /\ UNCHANGED <<histvars, reqvars, face_database, database_loaded, db_load_lock, envvars, cache_file, uploads,
                   loaded_from_cache, todo, temp_database, processed_files, failed_files,
                   called_busy, faults>>

MainReloadMetadata ==
    /\ mainpc = "metadata"
    /\ metadata_mapping' = LoadMetadata(metadata_file)
    /\ mainpc' = "serving"
    /\ UNCHANGED <<histvars, reqvars, face_database, database_loaded, db_load_lock, envvars, cache_file, uploads,
                   loaded_from_cache, loadvars, faults>>

\* -------------------------------------------------------- load_database
\* Another caller invokes load_database while the server runs.
Invoke(l) ==
    /\ mainpc = "serving" /\ lpc[l] = "idle"
    /\ lpc' = [lpc EXCEPT ![l] = "waiting"]
    /\ called_busy' = [called_busy EXCEPT ![l] = \E m \in Loaders : lpc[m] \in BodyPcs]
    /\ at_call' = [at_call EXCEPT ![l] = <<face_database, database_loaded, cache_file>>]
    /\ UNCHANGED <<histvars, reqvars, sharedvars, envvars, cache_file, uploads, mainvars, todo, temp_database,
                   processed_files, failed_files, faults>>

\* An invocation that finds the index loaded and writes its snapshot before
\* it returns.
LoadAlreadyLoaded_saves(l) ==
    /\ lpc[l] = "waiting" /\ LockFree /\ AlreadyLoaded
    /\ cache_file' = CacheOf(Pickle(face_database))
    /\ written_index' = Some(face_database)
    /\ lpc' = [lpc EXCEPT ![l] = "returned"]
    /\ UNCHANGED <<starts, reqvars, sharedvars, envvars, uploads, mainvars, todo, temp_database,
                   processed_files, failed_files, called_busy, at_call, faults>>

\* The lock is taken and the index is found loaded: return.
LoadAlreadyLoaded(l) ==
    /\ lpc[l] = "waiting" /\ LockFree /\ AlreadyLoaded
    /\ lpc' = [lpc EXCEPT ![l] = "returned"]
    /\ UNCHANGED <<histvars, reqvars, sharedvars, envvars, cache_file, uploads, mainvars, todo, temp_database,
                   processed_files, failed_files, called_busy, at_call, faults>>

\* The lock is taken, the index is not loaded: the metadata is read and the
\* private list and the counters are set up.
LoadBegin(l) ==
    /\ lpc[l] = "waiting" /\ LockFree /\ ~AlreadyLoaded
    /\ db_load_lock' = l
    /\ metadata_mapping' = LoadMetadata(metadata_file)
    /\ ClearLocals(l)
    /\ lpc' = [lpc EXCEPT ![l] = "body"]
    /\ UNCHANGED <<histvars, reqvars, face_database, database_loaded, envvars, cache_file, uploads, mainvars,
                   called_busy, at_call, faults>>

\* A missing before folder that ends the invocation without marking the
\* database loaded.
LoadMissingFolder_unmarked(l) ==
    /\ lpc[l] = "body" /\ ~before_exists
    /\ db_load_lock' = 0
    /\ lpc' = [lpc EXCEPT ![l] = "returned"]
    /\ UNCHANGED <<histvars, reqvars, face_database, metadata_mapping, database_loaded, envvars, cache_file,
                   uploads, mainvars, todo, temp_database, processed_files, failed_files,
                   called_busy, at_call, faults>>

\* The before folder does not exist.
LoadMissingFolder(l) ==
    /\ lpc[l] = "body" /\ ~before_exists
    /\ database_loaded' = TRUE
    /\ db_load_lock' = 0
    /\ lpc' = [lpc EXCEPT ![l] = "returned"]
    /\ UNCHANGED <<histvars, reqvars, face_database, metadata_mapping, envvars, cache_file, uploads, mainvars,
                   todo, temp_database, processed_files, failed_files, called_busy, at_call,
                   faults>>

\* A listdir failure handled like the missing folder: marked loaded.
LoadListdirFails_marks(l) ==
    /\ lpc[l] = "body" /\ before_exists /\ faults < MaxFaults
    /\ faults' = faults + 1
    /\ database_loaded' = TRUE
    /\ db_load_lock' = 0
    /\ lpc' = [lpc EXCEPT ![l] = "raised"]
    /\ UNCHANGED <<histvars, reqvars, face_database, metadata_mapping, envvars, cache_file,
                   uploads, mainvars, todo, temp_database, processed_files, failed_files,
                   called_busy, at_call>>

\* A listdir failure that ends the invocation with the lock still held.
LoadListdirFails_holds(l) ==
    /\ lpc[l] = "body" /\ before_exists /\ faults < MaxFaults
    /\ faults' = faults + 1
    /\ lpc' = [lpc EXCEPT ![l] = "raised"]
    /\ UNCHANGED <<histvars, reqvars, sharedvars, envvars, cache_file,
                   uploads, mainvars, todo, temp_database, processed_files, failed_files,
                   called_busy, at_call>>

\* os.listdir raises: the exception leaves the with block, which releases
\* the lock, and ends the invocation.
LoadListdirFails(l) ==
    /\ lpc[l] = "body" /\ before_exists /\ faults < MaxFaults
    /\ faults' = faults + 1
    /\ db_load_lock' = 0
    /\ lpc' = [lpc EXCEPT ![l] = "raised"]
    /\ UNCHANGED <<histvars, reqvars, face_database, metadata_mapping, database_loaded, envvars, cache_file,
                   uploads, mainvars, todo, temp_database, processed_files, failed_files,
                   called_busy, at_call>>

LoadListdir(l) ==
    /\ lpc[l] = "body" /\ before_exists
    /\ \E order \in Listings(before_files) : todo' = [todo EXCEPT ![l] = order]
    /\ lpc' = [lpc EXCEPT ![l] = "loop"]
    /\ UNCHANGED <<histvars, reqvars, sharedvars, envvars, cache_file, uploads, mainvars, temp_database,
                   processed_files, failed_files, called_busy, at_call, faults>>

\* The record load_database stores for a file whose embedding was computed.
BuildRecord(fname, embedding) ==
    Record(PathJoin(BEFORE_FOLDER_NAME, fname),
           find_corresponding_after_image(fname),
           Some(embedding),
           MappingGet(metadata_mapping, Splitext0(fname)))

\* A loop that appends to the shared list instead of the private one.
LoadFile_inplace(l) ==
    /\ lpc[l] = "loop" /\ todo[l] # <<>>
    /\ LET fname == Head(todo[l])
           res == GalleryImage(fname)
       IN  /\ todo' = [todo EXCEPT ![l] = Tail(todo[l])]
           /\ IF allowed_file(fname) /\ res.out = "vector"
              THEN /\ face_database' = Append(face_database, BuildRecord(fname, res.vec))
                   /\ temp_database' = [temp_database EXCEPT
                          ![l] = Append(temp_database[l], BuildRecord(fname, res.vec))]
                   /\ processed_files' = [processed_files EXCEPT ![l] = processed_files[l] + 1]
                   /\ UNCHANGED failed_files
              ELSE /\ failed_files' = [failed_files EXCEPT
                          ![l] = failed_files[l] + (IF allowed_file(fname) THEN 1 ELSE 0)]
                   /\ UNCHANGED <<face_database, temp_database, processed_files>>
    /\ UNCHANGED <<histvars, reqvars, metadata_mapping, database_loaded, db_load_lock, envvars,
                   cache_file, uploads, mainvars, lpc, called_busy, at_call, faults>>

\* A loop whose handler for exceptions other than ValueError ends the build.
LoadFile_escalates(l) ==
    /\ lpc[l] = "loop" /\ todo[l] # <<>>
    /\ LET fname == Head(todo[l])
           res == GalleryImage(fname)
       IN  IF allowed_file(fname) /\ res.out = "Exception"
           THEN /\ db_load_lock' = 0
                /\ lpc' = [lpc EXCEPT ![l] = "raised"]
                /\ UNCHANGED <<todo, temp_database, processed_files, failed_files>>
           ELSE /\ todo' = [todo EXCEPT ![l] = Tail(todo[l])]
                /\ IF ~allowed_file(fname)
                   THEN UNCHANGED <<temp_database, processed_files, failed_files>>
                   ELSE IF res.out = "vector"
                   THEN /\ temp_database' = [temp_database EXCEPT
                               ![l] = Append(temp_database[l], BuildRecord(fname, res.vec))]
                        /\ processed_files' = [processed_files EXCEPT
                               ![l] = processed_files[l] + 1]
                        /\ UNCHANGED failed_files
                   ELSE /\ failed_files' = [failed_files EXCEPT ![l] = failed_files[l] + 1]
                        /\ UNCHANGED <<temp_database, processed_files>>
                /\ UNCHANGED <<db_load_lock, lpc>>
    /\ UNCHANGED <<histvars, reqvars, face_database, metadata_mapping, database_loaded, envvars,
                   cache_file, uploads, mainvars, called_busy, at_call, faults>>

\* One turn of the loop over the directory listing.
LoadFile(l) ==
    /\ lpc[l] = "loop" /\ todo[l] # <<>>
    /\ LET fname == Head(todo[l])
           res == GalleryImage(fname)
       IN  /\ todo' = [todo EXCEPT ![l] = Tail(todo[l])]
           /\ IF ~allowed_file(fname)
              THEN UNCHANGED <<reqvars, temp_database, processed_files, failed_files>>
              ELSE IF res.out = "vector"
              THEN /\ temp_database' = [temp_database EXCEPT
                          ![l] = Append(temp_database[l], BuildRecord(fname, res.vec))]
                   /\ processed_files' = [processed_files EXCEPT ![l] = processed_files[l] + 1]
                   /\ UNCHANGED failed_files
              ELSE /\ failed_files' = [failed_files EXCEPT ![l] = failed_files[l] + 1]
                   /\ UNCHANGED <<reqvars, temp_database, processed_files>>
    /\ UNCHANGED <<histvars, reqvars, sharedvars, envvars, cache_file, uploads, mainvars, lpc, called_busy,
                   at_call, faults>>

\* face_database = temp_database
LoadPublish(l) ==
    /\ lpc[l] = "loop" /\ todo[l] = <<>>
    /\ face_database' = temp_database[l]
    /\ lpc' = [lpc EXCEPT ![l] = "flag"]
    /\ UNCHANGED <<histvars, reqvars, metadata_mapping, database_loaded, db_load_lock, envvars, cache_file,
                   uploads, mainvars, todo, temp_database, processed_files, failed_files,
                   called_busy, at_call, faults>>

\* database_loaded = True
LoadSetLoaded(l) ==
    /\ lpc[l] = "flag"
    /\ database_loaded' = TRUE
    /\ lpc' = [lpc EXCEPT ![l] = "save"]
    /\ UNCHANGED <<histvars, reqvars, face_database, metadata_mapping, db_load_lock, envvars, cache_file,
                   uploads, mainvars, todo, temp_database, processed_files, failed_files,
                   called_busy, at_call, faults>>

\* pickle.dump(face_database, f) succeeds; the lock is released on return.
LoadSaveCache(l) ==
    /\ lpc[l] = "save"
    /\ cache_file' = CacheOf(Pickle(face_database))
    /\ written_index' = Some(face_database)
    /\ db_load_lock' = 0
    /\ ClearLocals(l)
    /\ lpc' = [lpc EXCEPT ![l] = "returned"]
    /\ UNCHANGED <<starts, reqvars, face_database, metadata_mapping, database_loaded, envvars, uploads,
                   mainvars, called_busy, at_call, faults>>

\* A snapshot write whose exception is not handled: it ends the invocation
\* abnormally.
LoadSaveCacheFails_raises(l) ==
    /\ lpc[l] = "save" /\ faults < MaxFaults
    /\ faults' = faults + 1
    /\ \E truncated \in BOOLEAN :
          /\ cache_file' = IF truncated THEN CacheCorrupt ELSE cache_file
          /\ written_index' = IF truncated THEN None ELSE written_index
    /\ db_load_lock' = 0
    /\ ClearLocals(l)
    /\ lpc' = [lpc EXCEPT ![l] = "raised"]
    /\ UNCHANGED <<starts, reqvars, face_database, metadata_mapping, database_loaded, envvars, uploads,
                   mainvars, called_busy, at_call>>

\* Writing the snapshot raises: either open() failed and the file is as it
\* was, or the write failed after open() truncated it. The exception is
\* logged and load_database returns.
LoadSaveCacheFails(l) ==
    /\ lpc[l] = "save" /\ faults < MaxFaults
    /\ faults' = faults + 1
    /\ \E truncated \in BOOLEAN :
          /\ cache_file' = IF truncated THEN CacheCorrupt ELSE cache_file
          /\ written_index' = IF truncated THEN None ELSE written_index
    /\ db_load_lock' = 0
    /\ ClearLocals(l)
    /\ lpc' = [lpc EXCEPT ![l] = "returned"]
    /\ UNCHANGED <<starts, reqvars, face_database, metadata_mapping, database_loaded, envvars, uploads,
                   mainvars, called_busy, at_call>>

\* ------------------------------------------------------------- match_face
\* The multipart request: without a file part, or with a file of some name
\* and content.
NoFilePart == [part |-> FALSE, name |-> <<>>, img |-> EmptyResult]
Upload(name, img) == [part |-> TRUE, name |-> name, img |-> img]

uX1 == <<"x"," ","y",".","j","p","g">>
uX2 == <<"x","_","y",".","j","p","g">>

ConcUploads ==
    { Upload(uX1, Vector(<<2, 1>>)), Upload(uX2, RaisesValueError), NoFilePart }

\* The upload folder as a mapping from file name to content.
EmptyFolder == <<>>
FileExists(folder, name) == name \in DOMAIN folder
WriteFile(folder, name, img) ==
    [n \in DOMAIN folder \cup {name} |-> IF n = name THEN img ELSE folder[n]]
RemoveFile(folder, name) == [n \in DOMAIN folder \ {name} |-> folder[n]]

\* A match_face without the readiness check.
IndexReady_always == TRUE

\* A match_face that checks the flag alone.
IndexReady_flag == database_loaded

\* not (not database_loaded or not face_database)
IndexReady == database_loaded /\ face_database # <<>>

\* A match_face that runs under the build lock.
MatchMayRun_locked == db_load_lock = 0

\* match_face takes no lock: a step of a request waits for nothing.
MatchMayRun == TRUE

\* DeepFace.represent(img_path=uploaded_filepath, enforce_detection=True):
\* the file at the path is read when the call is made; a path that names no
\* file raises ValueError.
RepresentUpload(folder, name) ==
    IF FileExists(folder, name) THEN folder[name] ELSE RaisesValueError

\* scipy's cosine(u, v) = 1 - u.v / sqrt(u.u * v.v), kept as the exact pair
\* (u.v, u.u * v.v). With a zero vector the quotient is 0/0: the releases
\* that clip the result return nan, those that clamp it with
\* max(0, min(d, 2.0)) return the distance 0. Neither raises.
ZeroOutcomes == {"nan", "zero"}

RECURSIVE DotFrom(_, _, _)
DotFrom(u, v, i) == IF i > Len(u) THEN 0 ELSE u[i] * v[i] + DotFrom(u, v, i + 1)

Dot(u, v) == DotFrom(u, v, 1)

cosine(u, v) ==
    IF Dot(u, u) * Dot(v, v) = 0
    THEN IF cosine_of_zero = "nan"
         THEN [nan |-> TRUE, dot |-> 0, nn |-> 0]
         ELSE [nan |-> FALSE, dot |-> 1, nn |-> 1]
    ELSE [nan |-> FALSE, dot |-> Dot(u, v), nn |-> Dot(u, u) * Dot(v, v)]

\* d1 < d2 for two cosine distances: the similarity of d1 is the larger one;
\* a comparison with a distance that is not a number is false.
DistanceLess(d1, d2) ==
    /\ ~d1.nan /\ ~d2.nan
    /\ IF d1.dot >= 0 /\ d2.dot < 0 THEN TRUE
       ELSE IF d1.dot < 0 /\ d2.dot >= 0 THEN FALSE
       ELSE IF d1.dot >= 0 THEN d1.dot * d1.dot * d2.nn > d2.dot * d2.dot * d1.nn
       ELSE d1.dot * d1.dot * d2.nn < d2.dot * d2.dot * d1.nn

\* The loop over enumerate(face_database): an entry without an array as
\* embedding, or with one of another shape, is skipped.
RECURSIVE Distances(_, _, _)
Distances(db, q, i) ==
    IF i > Len(db) THEN <<>>
    ELSE (IF db[i].embedding = None \/ Len(The(db[i].embedding)) # Len(q)
          THEN <<>>
          ELSE << [index |-> i, distance |-> cosine(q, The(db[i].embedding))] >>)
         \o Distances(db, q, i + 1)

\* distances.sort(key=lambda x: x['distance']), as CPython sorts a short
\* list: the leading run is found (and reversed when it is strictly
\* descending), then each later element is put in place by binary
\* insertion. The only comparison made is key < key, which is false when a
\* key is not a number.
RECURSIVE RunEnd(_, _, _)
\* The length of the leading run, ds[1..i-1] being in it.
RunEnd(ds, i, descending) ==
    IF i > Len(ds) THEN Len(ds)
    ELSE IF DistanceLess(ds[i].distance, ds[i - 1].distance) = descending
    THEN RunEnd(ds, i + 1, descending)
    ELSE i - 1

count_run(ds) ==
    IF Len(ds) < 2 THEN [n |-> Len(ds), descending |-> FALSE]
    ELSE [n |-> RunEnd(ds, 3, DistanceLess(ds[2].distance, ds[1].distance)),
          descending |-> DistanceLess(ds[2].distance, ds[1].distance)]

Reverse(s) == [i \in 1..Len(s) |-> s[Len(s) + 1 - i]]

RECURSIVE BinarySearch(_, _, _, _)
\* The number of elements of a[1..r] the pivot is put after, found by
\* bisection between l and r.
BinarySearch(a, pivot, l, r) ==
    IF l >= r THEN l
    ELSE IF DistanceLess(pivot.distance, a[l + ((r - l) \div 2) + 1].distance)
    THEN BinarySearch(a, pivot, l, l + ((r - l) \div 2))
    ELSE BinarySearch(a, pivot, l + ((r - l) \div 2) + 1, r)

RECURSIVE binarysort(_, _)
\* a[1..start] is in order; the elements after it are inserted one by one.
binarysort(a, start) ==
    IF start >= Len(a) THEN a
    ELSE LET l == BinarySearch(a, a[start + 1], 0, start)
         IN  binarysort(SubSeq(a, 1, l) \o <<a[start + 1]>> \o SubSeq(a, l + 1, start)
                            \o SubSeq(a, start + 2, Len(a)),
                        start + 1)

SortDistances(ds) ==
    LET run == count_run(ds)
    IN  binarysort(IF run.descending
                   THEN Reverse(SubSeq(ds, 1, run.n)) \o SubSeq(ds, run.n + 1, Len(ds))
                   ELSE ds,
                   run.n)

Min(a, b) == IF a < b THEN a ELSE b

\* A match whose metadata is looked up in metadata_mapping when the response
\* is made.
MatchData_lookup(db, d) ==
    [similarity |-> [dot |-> d.distance.dot, nn |-> d.distance.nn, nan |-> d.distance.nan],
     match_before_url |-> <<"database_images", BEFORE_FOLDER_NAME,
                            Basename(db[d.index].before_path)>>,
     match_after_url |-> IF db[d.index].after_path # None
                         THEN Some(<<"database_images", AFTER_FOLDER_NAME,
                                     Basename(The(db[d.index].after_path))>>)
                         ELSE None,
     metadata |-> MappingGet(metadata_mapping, Splitext0(Basename(db[d.index].before_path)))]

\* One element of top_matches_data.
MatchData(db, d) ==
    [similarity |-> [dot |-> d.distance.dot, nn |-> d.distance.nn, nan |-> d.distance.nan],
     match_before_url |-> <<"database_images", BEFORE_FOLDER_NAME,
                            Basename(db[d.index].before_path)>>,
     match_after_url |-> IF db[d.index].after_path # None
                         THEN Some(<<"database_images", AFTER_FOLDER_NAME,
                                     Basename(The(db[d.index].after_path))>>)
                         ELSE None,
     metadata |-> db[d.index].metadata]

\* SIMILARITY_THRESHOLD = 0.50, in hundredths.
SIMILARITY_THRESHOLD == 50

\* similarity >= SIMILARITY_THRESHOLD, for the similarity 1 - d of a distance.
AtLeastThreshold(d) ==
    /\ ~d.nan /\ d.dot >= 0
    /\ 100 * 100 * d.dot * d.dot >= SIMILARITY_THRESHOLD * SIMILARITY_THRESHOLD * d.nn

\* A ranking that keeps only the candidates that reach the threshold.
TopMatches_gated(db, q) ==
    CHOOSE top \in
        { [i \in 1..Len(best) |-> MatchData(db, best[i])] : best \in
            { SubSeq(kept, 1, Min(3, Len(kept))) : kept \in
                { SelectSeq(sorted, LAMBDA d : AtLeastThreshold(d.distance)) : sorted \in
                    { SortDistances(ds) : ds \in {Distances(db, q, 1)} } } } } : TRUE

\* The first min(3, len(distances)) elements of the sorted distances, each
\* with the data of its record.
TopMatches(db, q) ==
    CHOOSE top \in
        { [i \in 1..Len(best) |-> MatchData(db, best[i])] : best \in
            { SubSeq(sorted, 1, Min(3, Len(sorted))) : sorted \in
                { SortDistances(ds) : ds \in {Distances(db, q, 1)} } } } : TRUE

ClearRequest(r) ==
    /\ filename' = [filename EXCEPT ![r] = <<>>]
    /\ uploaded_embedding' = [uploaded_embedding EXCEPT ![r] = <<>>]
    /\ pending' = [pending EXCEPT ![r] = NoResponse]

\* The request arrives before the index is ready.
MatchNotReady(r) ==
    /\ MatchMayRun
    /\ mainpc = "serving" /\ rpc[r] = "idle"
    /\ ~IndexReady
    /\ saw_loaded' = [saw_loaded EXCEPT ![r] = Some(database_loaded)]
    /\ response' = [response EXCEPT ![r] = NotReadyResponse]
    /\ rpc' = [rpc EXCEPT ![r] = "done"]
    /\ UNCHANGED <<histvars, sharedvars, envvars, cache_file, uploads, mainvars, loadvars, faults,
                   upload, filename, uploaded_embedding, pending, observed>>

\* The index is ready and the request carries no acceptable file.
MatchReject(r, inputs) ==
    /\ MatchMayRun
    /\ mainpc = "serving" /\ rpc[r] = "idle"
    /\ IndexReady
    /\ \E u \in inputs :
          /\ ~u.part \/ u.name = <<>> \/ ~allowed_file(u.name)
          /\ upload' = [upload EXCEPT ![r] = Some(u)]
          /\ response' = [response EXCEPT ![r] =
                 IF ~u.part THEN NoFilePartResponse
                 ELSE IF u.name = <<>> THEN NoSelectedFileResponse
                 ELSE NotAllowedResponse]
    /\ saw_loaded' = [saw_loaded EXCEPT ![r] = Some(database_loaded)]
    /\ observed' = [observed EXCEPT ![r] = Some(face_database)]
    /\ rpc' = [rpc EXCEPT ![r] = "done"]
    /\ UNCHANGED <<histvars, sharedvars, envvars, cache_file, uploads, mainvars, loadvars, faults,
                   filename, uploaded_embedding, pending>>

\* The index is ready: the upload is saved under its sanitized name.
MatchSave(r, inputs) ==
    /\ MatchMayRun
    /\ mainpc = "serving" /\ rpc[r] = "idle"
    /\ IndexReady
    /\ \E u \in inputs :
          /\ u.part /\ u.name # <<>> /\ allowed_file(u.name)
          /\ upload' = [upload EXCEPT ![r] = Some(u)]
          /\ \E saved_as \in {secure_filename(u.name)} :
                /\ filename' = [filename EXCEPT ![r] = saved_as]
                /\ uploads' = WriteFile(uploads, saved_as, u.img)
    /\ saw_loaded' = [saw_loaded EXCEPT ![r] = Some(database_loaded)]
    /\ observed' = [observed EXCEPT ![r] = Some(face_database)]
    /\ rpc' = [rpc EXCEPT ![r] = "embed"]
    /\ UNCHANGED <<histvars, sharedvars, envvars, cache_file, mainvars, loadvars, faults,
                   uploaded_embedding, pending, response>>

\* A strict embedding whose failure is answered at once, the uploaded file
\* left where it was saved.
MatchEmbed_leaves(r) ==
    /\ MatchMayRun
    /\ rpc[r] = "embed"
    /\ LET res == RepresentUpload(uploads, filename[r])
       IN  IF res.out = "vector"
           THEN /\ uploaded_embedding' = [uploaded_embedding EXCEPT ![r] = res.vec]
                /\ rpc' = [rpc EXCEPT ![r] = "scan"]
                /\ UNCHANGED <<pending, response, filename>>
           ELSE /\ response' = [response EXCEPT ![r] =
                       IF res.out = "Exception" THEN UnexpectedErrorResponse
                       ELSE CouldNotProcessResponse]
                /\ rpc' = [rpc EXCEPT ![r] = "done"]
                /\ ClearRequest(r)
    /\ UNCHANGED <<histvars, sharedvars, envvars, cache_file, uploads, mainvars, loadvars, faults,
                   upload, saw_loaded, observed>>

\* The embedding of the uploaded file is computed in strict mode.
MatchEmbed(r) ==
    /\ MatchMayRun
    /\ rpc[r] = "embed"
    /\ LET res == RepresentUpload(uploads, filename[r])
       IN  IF res.out = "vector"
           THEN /\ uploaded_embedding' = [uploaded_embedding EXCEPT ![r] = res.vec]
                /\ rpc' = [rpc EXCEPT ![r] = "scan"]
                /\ UNCHANGED pending
           ELSE /\ pending' = [pending EXCEPT ![r] =
                       IF res.out = "Exception" THEN UnexpectedErrorResponse
                       ELSE CouldNotProcessResponse]
                /\ rpc' = [rpc EXCEPT ![r] = "cleanup"]
                /\ UNCHANGED uploaded_embedding
    /\ UNCHANGED <<histvars, sharedvars, envvars, cache_file, uploads, mainvars, loadvars, faults,
                   upload, filename, response, saw_loaded, observed>>

\* A comparison without the check of an empty distances list: the request
\* goes on to the ranking and ends in the no-match branch.
MatchScan_fallthrough(r) ==
    /\ MatchMayRun
    /\ rpc[r] = "scan"
    /\ observed' = [observed EXCEPT ![r] = Some(face_database)]
    /\ \E matches \in {TopMatches(face_database, uploaded_embedding[r])} :
           IF Len(matches) = 0
           THEN /\ pending' = [pending EXCEPT ![r] = NoMatchFoundResponse]
                /\ rpc' = [rpc EXCEPT ![r] = "cleanup"]
                /\ UNCHANGED <<response, filename, uploaded_embedding>>
           ELSE /\ response' = [response EXCEPT ![r] = SuccessResponse(filename[r], matches)]
                /\ rpc' = [rpc EXCEPT ![r] = "done"]
                /\ ClearRequest(r)
    /\ UNCHANGED <<histvars, sharedvars, envvars, cache_file, uploads, mainvars, loadvars, faults,
                   upload, saw_loaded>>

\* The index is scanned, the distances are sorted and the best matches are
\* returned; without any distance the upload is to be removed.
MatchScan(r) ==
    /\ MatchMayRun
    /\ rpc[r] = "scan"
    /\ observed' = [observed EXCEPT ![r] = Some(face_database)]
    /\ \E matches \in {TopMatches(face_database, uploaded_embedding[r])} :
           IF Distances(face_database, uploaded_embedding[r], 1) = <<>>
           THEN /\ pending' = [pending EXCEPT ![r] = DbCompareErrorResponse]
                /\ rpc' = [rpc EXCEPT ![r] = "cleanup"]
                /\ UNCHANGED <<response, filename, uploaded_embedding>>
           ELSE /\ response' = [response EXCEPT ![r] =
                       IF Len(matches) > 0 THEN SuccessResponse(filename[r], matches)
                       ELSE NoMatchFoundResponse]
                /\ rpc' = [rpc EXCEPT ![r] = "done"]
                /\ ClearRequest(r)
    /\ UNCHANGED <<histvars, sharedvars, envvars, cache_file, uploads, mainvars, loadvars, faults,
                   upload, saw_loaded>>

\* if os.path.exists(uploaded_filepath): the file is not there, and the
\* failure is returned.
MatchCleanupAbsent(r) ==
    /\ MatchMayRun
    /\ rpc[r] = "cleanup" /\ ~FileExists(uploads, filename[r])
    /\ response' = [response EXCEPT ![r] = pending[r]]
    /\ rpc' = [rpc EXCEPT ![r] = "done"]
    /\ ClearRequest(r)
    /\ UNCHANGED <<histvars, sharedvars, envvars, cache_file, uploads, mainvars, loadvars, faults,
                   upload, saw_loaded, observed>>

\* if os.path.exists(uploaded_filepath): the file is there.
MatchCleanupPresent(r) ==
    /\ MatchMayRun
    /\ rpc[r] = "cleanup" /\ FileExists(uploads, filename[r])
    /\ rpc' = [rpc EXCEPT ![r] = "remove"]
    /\ UNCHANGED <<histvars, sharedvars, envvars, cache_file, uploads, mainvars, loadvars, faults,
                   upload, filename, uploaded_embedding, pending, response, saw_loaded,
                   observed>>

\* A failure that is answered with the uploaded file left in the folder.
MatchRemove_keeps(r) ==
    /\ MatchMayRun
    /\ rpc[r] = "remove"
    /\ response' = [response EXCEPT ![r] = pending[r]]
    /\ rpc' = [rpc EXCEPT ![r] = "done"]
    /\ ClearRequest(r)
    /\ UNCHANGED <<histvars, sharedvars, envvars, cache_file, uploads, mainvars, loadvars, faults,
                   upload, saw_loaded, observed>>

\* os.remove(uploaded_filepath). When the file has gone in the meantime
\* os.remove raises; the handler at the request boundary finds no file to
\* remove and returns the internal error.
MatchRemove(r) ==
    /\ MatchMayRun
    /\ rpc[r] = "remove"
    /\ IF FileExists(uploads, filename[r])
       THEN /\ uploads' = RemoveFile(uploads, filename[r])
            /\ response' = [response EXCEPT ![r] = pending[r]]
       ELSE /\ response' = [response EXCEPT ![r] = InternalErrorResponse]
            /\ UNCHANGED uploads
    /\ rpc' = [rpc EXCEPT ![r] = "done"]
    /\ ClearRequest(r)
    /\ UNCHANGED <<histvars, sharedvars, envvars, cache_file, mainvars, loadvars, faults,
                   upload, saw_loaded, observed>>

MatchStep(r, inputs) ==
    \/ MatchNotReady(r)
    \/ MatchReject(r, inputs)
    \/ MatchSave(r, inputs)
    \/ MatchEmbed(r)
    \/ MatchScan(r)
    \/ MatchCleanupAbsent(r)
    \/ MatchCleanupPresent(r)
    \/ MatchRemove(r)

MainStep ==
    \/ MainImported
    \/ MainEnsureFolders
    \/ MainLoadCache
    \/ MainStartThread
    \/ MainReloadMetadata

LoadStep(l) ==
    \/ Invoke(l)
    \/ LoadAlreadyLoaded(l)
    \/ LoadBegin(l)
    \/ LoadMissingFolder(l)
    \/ LoadListdirFails(l)
    \/ LoadListdir(l)
    \/ LoadFile(l)
    \/ LoadPublish(l)
    \/ LoadSetLoaded(l)
    \/ LoadSaveCache(l)
    \/ LoadSaveCacheFails(l)

\* No embedding of these environments is a zero vector.
Init == InitWith(ConcEnvs) /\ cosine_of_zero = "nan"

NextWith(inputs) ==
    \/ MainStep
    \/ \E l \in Loaders : LoadStep(l)
    \/ \E r \in Requests : MatchStep(r, inputs)

Next == NextWith(ConcUploads)

Spec == Init /\ [][Next]_vars

\* The threads are scheduled fairly: an invocation of load_database that can
\* take a step takes one. Whether a listing or a snapshot write fails, and
\* whether anybody else invokes load_database, is not up to the scheduler.
LoadRun(l) ==
    \/ LoadAlreadyLoaded(l)
    \/ LoadBegin(l)
    \/ LoadMissingFolder(l)
    \/ LoadListdirFails(l)
    \/ LoadListdir(l)
    \/ LoadFile(l)
    \/ LoadPublish(l)
    \/ LoadSetLoaded(l)
    \/ LoadSaveCache(l)
    \/ LoadSaveCacheFails(l)

SpecLive == Init /\ [][Next]_vars /\ \A l \in Loaders : WF_vars(LoadRun(l))

\* The build alone, over every small before directory.
BuildDirs == { S \in SUBSET GalleryFiles : Cardinality(S) <= MaxFiles }
BuildEnvs ==
    { Env(m, TRUE, S, a, meta, c) :
          m \in {"main", "imported"}, S \in BuildDirs, a \in {{}, {fA}},
          meta \in {MetaMissing, MetaNoKey, MetaList(<<MetaItem(<<"a">>, "p1")>>)},
          c \in {CacheMissing, CacheOf(<<RecordBytes(SnapRecord)>>)} }
    \cup { Env("imported", FALSE, {}, {}, MetaMissing, CacheMissing) }

InitBuild == InitWith(BuildEnvs) /\ cosine_of_zero = "nan"

NextBuild ==
    \/ MainStep
    \/ \E l \in Loaders : LoadStep(l)

SpecBuild == InitBuild /\ [][NextBuild]_vars

\* ---------------------------------------------------------- matching alone
\* match_face over every small index a snapshot can hold, each request with
\* an upload name of its own.
MaxIndex == 4

IndexRecord(c, emb) ==
    Record(PathJoin(BEFORE_FOLDER_NAME, <<c, ".", "j", "p", "g">>), None, emb, None)

\* Records with the embeddings of a face, of two other faces that are
\* equally far from it, of its opposite, a zero vector, an embedding of
\* another model's dimension and no embedding at all.
MatchRecords ==
    { IndexRecord("a", Some(<<2, 1>>)), IndexRecord("b", Some(<<1, 2>>)),
      IndexRecord("c", Some(<<1, 2>>)), IndexRecord("d", Some(<<-2, -1>>)),
      IndexRecord("e", Some(<<0, 0>>)), IndexRecord("f", Some(<<1, 1, 1>>)),
      IndexRecord("g", None) }

\* The indexes: up to MaxIndex different records in any order.
MatchIndexes ==
    UNION { { db \in [1..n -> MatchRecords] : \A i, j \in 1..n : db[i] = db[j] => i = j } :
            n \in 0..MaxIndex }

MatchEnvs ==
    { Env("main", TRUE, {}, {}, MetaMissing, CacheOf(Pickle(db))) : db \in MatchIndexes }

\* The name under which request r uploads its file.
UploadName(r) == << <<"x", "y", "z", "w">>[r], ".", "j", "p", "g" >>

\* The requests each client can make.
MatchUploads ==
    [r \in Requests |->
        { Upload(UploadName(r), Vector(<<2, 1>>)), Upload(UploadName(r), Vector(<<1, 2>>)),
          Upload(UploadName(r), RaisesValueError), Upload(UploadName(r), RaisesException),
          NoFilePart }]

InitMatch == InitWith(MatchEnvs) /\ cosine_of_zero \in ZeroOutcomes

\* A request whose file has a name of its own finds it where it saved it, so
\* the step that finds the file gone is left out.
NextMatch ==
    \/ MainEnsureFolders
    \/ MainLoadCache
    \/ MainReloadMetadata
    \/ \E r \in Requests :
          \/ MatchNotReady(r)
          \/ MatchReject(r, MatchUploads[r])
          \/ MatchSave(r, MatchUploads[r])
          \/ MatchEmbed(r)
          \/ MatchScan(r)
          \/ MatchCleanupPresent(r)
          \/ MatchRemove(r)

SpecMatch == InitMatch /\ [][NextMatch]_vars

\* ------------------------------------------------ matching, a longer index
\* The index is as long as the sort needs to move an element past several
\* others: TieLen records, each with one of three embeddings, two of which
\* are at different distances from either query and one is the zero vector.
\* The empty index is there for the request that finds it not ready.
TieLen == 7

TieEmbeddings == { <<2, 1>>, <<1, 2>>, <<0, 0>> }

TieIndexes ==
    {<<>>} \cup
    { [i \in 1..TieLen |-> IndexRecord(<<"a", "b", "c", "d", "e", "f", "g", "h", "i", "j">>[i], Some(embs[i]))] :
        embs \in [1..TieLen -> TieEmbeddings] }

TieEnvs ==
    { Env("main", TRUE, {}, {}, MetaMissing, CacheOf(Pickle(db))) : db \in TieIndexes }

InitTies == InitWith(TieEnvs) /\ cosine_of_zero \in ZeroOutcomes

SpecTies == InitTies /\ [][NextMatch]_vars

\* ------------------------------------------------- the process run again
\* python app.py is stopped and started again: the module globals are as at
\* import, the threads and requests of the old process are gone, and the
\* files are as the old process left them.
MaxStarts == 2

Restart ==
    /\ mainpc = "serving" /\ starts < MaxStarts
    /\ starts' = starts + 1
    /\ face_database' = <<>>
    /\ metadata_mapping' = NoMapping
    /\ database_loaded' = FALSE
    /\ db_load_lock' = 0
    /\ mainpc' = "start"
    /\ loaded_from_cache' = FALSE
    /\ lpc' = [l \in Loaders |-> "idle"]
    /\ todo' = [l \in Loaders |-> <<>>]
    /\ temp_database' = [l \in Loaders |-> <<>>]
    /\ processed_files' = [l \in Loaders |-> 0]
    /\ failed_files' = [l \in Loaders |-> 0]
    /\ called_busy' = [l \in Loaders |-> FALSE]
    /\ at_call' = [l \in Loaders |-> <<>>]
    /\ rpc' = [r \in Requests |-> "idle"]
    /\ upload' = [r \in Requests |-> None]
    /\ filename' = [r \in Requests |-> <<>>]
    /\ uploaded_embedding' = [r \in Requests |-> <<>>]
    /\ pending' = [r \in Requests |-> NoResponse]
    /\ response' = [r \in Requests |-> NoResponse]
    /\ saw_loaded' = [r \in Requests |-> None]
    /\ observed' = [r \in Requests |-> None]
    /\ UNCHANGED <<envvars, cache_file, uploads, faults, written_index>>

\* Two versions of scraped_data.json, which differ in what they say of the
\* case "a".
RestartMetas ==
    { MetaList(<<MetaItem(<<"a">>, "p1")>>), MetaList(<<MetaItem(<<"a">>, "p2")>>) }

\* scraped_data.json is replaced by its other version.
ChangeMetadata ==
    /\ \E m \in RestartMetas \ {metadata_file} : metadata_file' = m
    /\ UNCHANGED <<sharedvars, run_mode, before_exists, before_files, after_files,
                   cosine_of_zero, cache_file, uploads, mainvars, loadvars, reqvars, faults,
                   histvars>>

\* An image with a face is put into the before folder.
PutImage ==
    /\ fA \notin before_files
    /\ before_files' = before_files \cup {fA}
    /\ UNCHANGED <<sharedvars, run_mode, before_exists, after_files, metadata_file,
                   cosine_of_zero, cache_file, uploads, mainvars, loadvars, reqvars, faults,
                   histvars>>

RestartEnvs ==
    { Env("main", TRUE, S, {fA}, MetaList(<<MetaItem(<<"a">>, "p1")>>), c) :
          S \in {{}, {fA}, {fE}, {fA, fB}},
          c \in {CacheMissing, CacheCorrupt, CacheOf(<<>>)} }

\* What each client uploads, under a name of its own.
RestartUploads ==
    [r \in Requests |->
        { Upload(UploadName(r), Vector(<<2, 1>>)), Upload(UploadName(r), RaisesValueError),
          NoFilePart }]

InitRestart == InitWith(RestartEnvs) /\ cosine_of_zero = "nan"

\* python app.py alone: the only invocation of load_database is the thread
\* the start-up code starts.
NextRestart ==
    \/ MainEnsureFolders
    \/ MainLoadCache
    \/ MainStartThread
    \/ MainReloadMetadata
    \/ LoadBegin(1)
    \/ LoadListdir(1)
    \/ LoadFile(1)
    \/ LoadPublish(1)
    \/ LoadSetLoaded(1)
    \/ LoadSaveCache(1)
    \/ LoadSaveCacheFails(1)
    \/ \E r \in Requests :
          \/ MatchNotReady(r)
          \/ MatchReject(r, RestartUploads[r])
          \/ MatchSave(r, RestartUploads[r])
          \/ MatchEmbed(r)
          \/ MatchScan(r)
          \/ MatchCleanupPresent(r)
          \/ MatchRemove(r)
    \/ Restart
    \/ ChangeMetadata
    \/ PutImage

SpecRestart == InitRestart /\ [][NextRestart]_vars

\* ------------------------------------------------------------ properties
\* The record a build stores for a gallery file, from the environment alone.
ExpectedRecord(f) ==
    Record(PathJoin(BEFORE_FOLDER_NAME, f),
           IF f \in after_files THEN Some(PathJoin(AFTER_FOLDER_NAME, f)) ELSE None,
           Some(GalleryImage(f).vec),
           MappingGet(LoadMetadata(metadata_file), Splitext0(f)))

AllowedFiles == { f \in before_files : allowed_file(f) }
EmbeddedFiles == { f \in AllowedFiles : GalleryImage(f).out = "vector" }

\* db holds exactly one record for each embedded file of the before folder.
IsCompleteBuild(db) ==
    /\ Len(db) = Cardinality(EmbeddedFiles)
    /\ \A f \in EmbeddedFiles : \E i \in 1..Len(db) : db[i] = ExpectedRecord(f)

\* db is the index before the build, the index read from the snapshot, or
\* the whole index of a build.
IsWholeIndex(db) ==
    \/ db = <<>>
    \/ loaded_from_cache /\ db = Unpickle(cache_file.data)
    \/ IsCompleteBuild(db)

\* C1: the shared index is at every moment the old complete index or the
\* new complete index, and so is every value of it a match request has
\* read; a partially populated index is never visible.
C1_CompleteIndexOnly ==
    /\ IsWholeIndex(face_database)
    /\ \A r \in Requests : observed[r] # None => IsWholeIndex(The(observed[r]))

\* A request has read a two-record index while the build that published it
\* still holds the lock.
C1_Witness ==
    \E r \in Requests, l \in Loaders :
        /\ lpc[l] = "save" /\ db_load_lock = l
        /\ observed[r] # None /\ Len(The(observed[r])) = 2

\* C2: a request that finds database_loaded false ends with the not-ready
\* response, which differs from the no-match response, without an upload
\* saved or an embedding computed; no request is past its first step
\* without having found the index ready.
C2_NotReadyFirst ==
    /\ NotReadyResponse # NoMatchFoundResponse
    /\ \A r \in Requests :
        /\ saw_loaded[r] = Some(FALSE) =>
              /\ rpc[r] = "done" /\ response[r] = NotReadyResponse
              /\ upload[r] = None /\ filename[r] = <<>> /\ uploaded_embedding[r] = <<>>
              /\ observed[r] = None
        /\ rpc[r] \in {"embed", "scan", "cleanup", "remove"} => saw_loaded[r] = Some(TRUE)
        /\ rpc[r] # "idle" => saw_loaded[r] # None

\* A request was rejected as not ready while a build was embedding files.
C2_Witness ==
    \E r \in Requests, l \in Loaders :
        /\ lpc[l] = "loop" /\ temp_database[l] # <<>>
        /\ saw_loaded[r] = Some(FALSE) /\ response[r] = NotReadyResponse

C4_OneBuilder ==
    /\ Cardinality({ l \in Loaders : lpc[l] \in BodyPcs }) <= 1
    /\ \A l \in Loaders : lpc[l] \in BodyPcs <=> db_load_lock = l

\* One invocation is inside the build while another waits for the lock.
C4_Witness ==
    \E l, m \in Loaders : l # m /\ lpc[l] = "loop" /\ lpc[m] = "waiting"

\* C5 as stated: the outcome of a request is that of its own upload, whatever
\* another request does: with an index it can be compared with, an upload
\* with a face succeeds and an upload without one does not.
C5_Original ==
    \A r \in Requests :
        (rpc[r] = "done" /\ upload[r] # None /\ The(upload[r]).part
            /\ allowed_file(The(upload[r]).name)) =>
        IF The(upload[r]).img.out = "vector"
        THEN Distances(face_database, The(upload[r]).img.vec, 1) # <<>> => response[r].success
        ELSE ~response[r].success

\* C6: a step of a match request is never held up by db_load_lock, and it
\* changes neither the lock, nor the flag, nor the index.
C6_RequestsOnlyRead ==
    \A r \in Requests :
        /\ (mainpc = "serving" /\ rpc[r] # "done") => ENABLED MatchStep(r, ConcUploads)
        /\ ~ENABLED (/\ MatchStep(r, ConcUploads)
                     /\ <<db_load_lock, database_loaded, face_database>>'
                            # <<db_load_lock, database_loaded, face_database>>)

\* A request has been answered with matches while a build holds the lock.
C6_Witness ==
    \E r \in Requests, l \in Loaders :
        /\ db_load_lock = l /\ lpc[l] \in BodyPcs
        /\ rpc[r] = "done" /\ response[r].success

\* C7: once database_loaded is true, no step changes face_database.
C7_LoadedIndexFrozen ==
    [][database_loaded => face_database' = face_database]_vars

\* The index is loaded and nonempty, a later invocation has returned and a
\* request has been answered from it.
C7_Witness ==
    /\ database_loaded /\ face_database # <<>>
    /\ \E l \in Loaders : called_busy[l] = FALSE /\ lpc[l] = "returned" /\ db_load_lock = 0
    /\ \E l \in Loaders : lpc[l] = "returned" /\ at_call[l] # <<>> /\ at_call[l][2]
    /\ \E r \in Requests : rpc[r] = "done" /\ response[r].success

\* C8: the step in which an invocation ends abnormally leaves the index, the
\* flag and the snapshot as they were when it was called, and releases the
\* lock.
C8_FailedBuildKeepsIndex ==
    [][\A l \in Loaders :
          (lpc[l] \in BodyPcs /\ lpc'[l] = "raised") =>
              /\ face_database' = at_call[l][1]
              /\ database_loaded' = at_call[l][2]
              /\ cache_file' = at_call[l][3]
              /\ db_load_lock' = 0]_vars

\* After a failed invocation a later one is building.
C8_Witness ==
    \E l, m \in Loaders :
        /\ lpc[l] = "raised" /\ lpc[m] = "loop" /\ db_load_lock = m
        /\ face_database = <<>> /\ ~database_loaded

\* C9: a build that has listed the folder publishes exactly one record for
\* each allowed file the provider embedded and none for another file, its
\* two counters add up to the number of allowed files, and no outcome of a
\* single file ends the invocation.
C9_PerFileFailuresContained ==
    \A l \in Loaders :
        /\ lpc[l] \in {"flag", "save"} =>
              /\ IsCompleteBuild(face_database)
              /\ processed_files[l] = Cardinality(EmbeddedFiles)
              /\ processed_files[l] + failed_files[l] = Cardinality(AllowedFiles)
        /\ lpc[l] = "raised" => todo[l] = <<>> /\ processed_files[l] + failed_files[l] = 0

\* A build has published its index after a file was embedded and another
\* file failed.
C9_Witness ==
    \E l \in Loaders :
        /\ lpc[l] = "flag" /\ processed_files[l] >= 1 /\ failed_files[l] >= 1

\* A snapshot value that is a collection of gallery records.
ValidCollection(db) == \A i \in 1..Len(db) : db[i].embedding # None

\* C10 as stated: after start-up the index is marked loaded from the
\* snapshot only if the snapshot held a valid record collection, and
\* otherwise the background build has been started.
C10_Original ==
    (run_mode = "main" /\ mainpc = "serving") =>
        /\ loaded_from_cache => ValidCollection(face_database)
        /\ ~loaded_from_cache => lpc[1] # "idle"

\* A snapshot write has failed: every fault is a failed listing, which leaves
\* its invocation at "raised", or a failed snapshot write.
SnapshotWriteFailed == faults > Cardinality({ l \in Loaders : lpc[l] = "raised" })

\* C11: the step in which the snapshot write raises ends the invocation
\* normally, with the lock released, the flag set and the whole new index
\* published and unchanged; a request that arrives after a failed write is
\* not answered as not ready when the index holds records.
C11_SnapshotFailureKeepsIndex ==
    [][/\ \A l \in Loaders :
             (lpc[l] = "save" /\ faults' # faults) =>
                 /\ lpc'[l] = "returned" /\ db_load_lock' = 0
                 /\ database_loaded' /\ face_database' = face_database
                 /\ IsCompleteBuild(face_database')
       /\ \A r \in Requests :
             (SnapshotWriteFailed /\ rpc[r] = "idle" /\ rpc'[r] # "idle") =>
                 /\ saw_loaded'[r] = Some(TRUE)
                 /\ face_database # <<>> => response'[r] # NotReadyResponse]_vars

\* After a failed snapshot write that left no readable snapshot, a request
\* has been answered with matches from the index in memory.
C11_Witness ==
    /\ SnapshotWriteFailed /\ cache_file.st # "ok" /\ db_load_lock = 0
    /\ \E r \in Requests :
          /\ rpc[r] = "done" /\ response[r].success
          /\ observed[r] = Some(face_database)

\* C12: without a before folder the index stays empty and no invocation
\* raises, lists files or writes a snapshot; once an invocation has returned
\* the database is marked loaded and no other invocation enters the build;
\* and every request is answered as not ready.
C12_MissingFolderEmptyIndex ==
    ~before_exists =>
        /\ face_database = <<>>
        /\ \A l \in Loaders : lpc[l] \in {"idle", "waiting", "body", "returned"}
        /\ (\E l \in Loaders : lpc[l] = "returned") =>
               /\ database_loaded
               /\ \A m \in Loaders : lpc[m] # "body"
        /\ \A r \in Requests :
               /\ rpc[r] \in {"idle", "done"}
               /\ rpc[r] = "done" => response[r] = NotReadyResponse

\* Without a before folder every invocation has returned, and a request that
\* found the database marked loaded was answered as not ready.
C12_Witness ==
    /\ ~before_exists
    /\ \A l \in Loaders : lpc[l] = "returned"
    /\ \E r \in Requests :
          /\ rpc[r] = "done" /\ saw_loaded[r] = Some(TRUE)
          /\ response[r] = NotReadyResponse

\* C13: when no file of the before folder yields an embedding and no
\* snapshot was loaded, the index is empty, a build that listed the folder
\* reaches its end with every allowed file counted as failed, an invocation
\* that returned has left the database marked loaded, and every request is
\* answered as not ready without an upload saved or the index scanned.
C13_NoEmbeddingsEmptyIndex ==
    (EmbeddedFiles = {} /\ ~loaded_from_cache) =>
        /\ face_database = <<>>
        /\ \A l \in Loaders :
               /\ lpc[l] \in {"flag", "save"} =>
                      /\ processed_files[l] = 0
                      /\ failed_files[l] = Cardinality(AllowedFiles)
               /\ lpc[l] = "returned" => database_loaded
        /\ \A r \in Requests :
               /\ rpc[r] \in {"idle", "done"}
               /\ rpc[r] = "done" => response[r] = NotReadyResponse /\ uploads = EmptyFolder

\* A build over a folder whose only allowed file has no face has written the
\* snapshot of the empty index, and a request that found the database marked
\* loaded was answered as not ready.
C13_Witness ==
    /\ before_exists /\ AllowedFiles # {} /\ EmbeddedFiles = {}
    /\ database_loaded /\ cache_file = CacheOf(<<>>)
    /\ \E r \in Requests :
          /\ rpc[r] = "done" /\ saw_loaded[r] = Some(TRUE)
          /\ response[r] = NotReadyResponse

\* The metadata source cannot be loaded: it is missing or unreadable, or one
\* of its items has no case_id.
MetadataFails ==
    \/ ~metadata_file.ok
    \/ \E i \in 1..Len(metadata_file.items) : "case_id" \notin DOMAIN metadata_file.items[i]

\* C14: when the metadata source cannot be loaded the build goes on with the
\* empty mapping and publishes one record for each embedded file, with the
\* paths and the embedding it would have otherwise and no metadata.
C14_MetadataFailureNotFatal ==
    MetadataFails =>
        \A l \in Loaders :
            /\ lpc[l] \in BodyPcs => metadata_mapping = NoMapping
            /\ lpc[l] \in {"flag", "save"} =>
                   /\ Len(face_database) = Cardinality(EmbeddedFiles)
                   /\ \A f \in EmbeddedFiles : \E i \in 1..Len(face_database) :
                          face_database[i] =
                              Record(PathJoin(BEFORE_FOLDER_NAME, f),
                                     IF f \in after_files
                                     THEN Some(PathJoin(AFTER_FOLDER_NAME, f)) ELSE None,
                                     Some(GalleryImage(f).vec), None)

\* A build has published the record of a.jpg although the metadata list,
\* which has an item for "a", holds an item without case_id.
C14_Witness ==
    /\ metadata_file = MetaNoKey /\ fA \in before_files
    /\ \E l \in Loaders : lpc[l] = "save" /\ face_database # <<>>

\* C15: in an index that was built, a record has an after path exactly when
\* the after folder holds a file of the name of its before file, and then it
\* is the path of that file; every record is scored, and a returned match
\* has an after URL exactly when its record has an after path.
C15_AfterAssetIffFileExists ==
    ~loaded_from_cache =>
        /\ \A i \in 1..Len(face_database) :
               LET rec == face_database[i]
               IN  IF Basename(rec.before_path) \in after_files
                   THEN rec.after_path =
                            Some(PathJoin(AFTER_FOLDER_NAME, Basename(rec.before_path)))
                   ELSE rec.after_path = None
        /\ \A r \in Requests :
               response[r].success =>
                   /\ Len(response[r].matches) = Min(3, Cardinality(EmbeddedFiles))
                   /\ \A k \in 1..Len(response[r].matches) :
                          LET m == response[r].matches[k]
                          IN  IF m.match_before_url[3] \in after_files
                              THEN m.match_after_url =
                                       Some(<<"database_images", AFTER_FOLDER_NAME,
                                              m.match_before_url[3]>>)
                              ELSE m.match_after_url = None

\* A request was answered with two matches from a built index, one with an
\* after URL and one without.
C15_Witness ==
    /\ ~loaded_from_cache
    /\ \E r \in Requests :
          /\ response[r].success
          /\ \E j, k \in 1..Len(response[r].matches) :
                 /\ response[r].matches[j].match_after_url = None
                 /\ response[r].matches[k].match_after_url # None

\* The query of a request that got past the checks of its upload: the
\* embedding of the file it uploaded under its own name.
QueryOf(r) == The(upload[r]).img.vec

\* The records a distance is computed for: those with an embedding of the
\* query's dimension.
Comparable(db, q) ==
    { i \in 1..Len(db) : db[i].embedding # None /\ Len(The(db[i].embedding)) = Len(q) }

DistanceTo(db, q, i) == cosine(q, The(db[i].embedding))

\* d1 <= d2 for two distances, which is false when one is not a number.
DistanceLeq(d1, d2) == ~d1.nan /\ ~d2.nan /\ ~DistanceLess(d2, d1)

\* C16 as stated: a successful response lists min(3, comparable records)
\* matches in non-decreasing order of distance, and no comparable record it
\* leaves out is strictly nearer than one it lists.
C16_Original ==
    \A r \in Requests :
        (rpc[r] = "done" /\ response[r].success) =>
            LET ms == response[r].matches
                near == Comparable(face_database, QueryOf(r))
            IN  /\ Len(ms) = Min(3, Cardinality(near))
                /\ \A k \in 1..(Len(ms) - 1) : DistanceLeq(ms[k].similarity, ms[k + 1].similarity)
                /\ \A i \in near :
                       \/ \E k \in 1..Len(ms) :
                              ms[k] = MatchData(face_database,
                                                [index |-> i,
                                                 distance |-> DistanceTo(face_database, QueryOf(r), i)])
                       \/ \A k \in 1..Len(ms) :
                              ~DistanceLess(DistanceTo(face_database, QueryOf(r), i),
                                            ms[k].similarity)

\* The request got past the checks of its upload and has been answered, and
\* its file held an embedding.
Answered(r) ==
    /\ rpc[r] = "done" /\ upload[r] # None
    /\ The(upload[r]).part /\ The(upload[r]).img.out = "vector"

\* C17: a request for whose query at least one distance was computed is
\* answered with success and min(3, number of distances) matches, whatever
\* their similarity; the no-match response is given only to a request for
\* which no distance was computed.
C17_NoThresholdGating ==
    \A r \in Requests :
        /\ Answered(r) =>
               LET near == Comparable(face_database, QueryOf(r))
               IN  near # {} =>
                       /\ response[r].success
                       /\ Len(response[r].matches) = Min(3, Cardinality(near))
        /\ response[r] = NoMatchFoundResponse =>
               Answered(r) /\ Comparable(face_database, QueryOf(r)) = {}

\* A request with more than three comparable records was answered with three
\* matches, one of them with a similarity below the threshold.
C17_Witness ==
    \E r \in Requests :
        /\ Answered(r) /\ response[r].success
        /\ Cardinality(Comparable(face_database, QueryOf(r))) > 3
        /\ Len(response[r].matches) = 3
        /\ \E k \in 1..3 :
               /\ ~response[r].matches[k].similarity.nan
               /\ ~AtLeastThreshold(response[r].matches[k].similarity)

\* C18: a request whose upload gave an embedding, against a non-empty index
\* none of whose records is comparable with it, is answered with the
\* DB_COMPARE_ERROR failure and its file is removed; that response is
\* neither the not-ready response, nor the no-match response, nor the
\* internal error, and it is given in no other case.
C18_NoComparableEntries ==
    /\ DbCompareErrorResponse \notin {NotReadyResponse, NoMatchFoundResponse, InternalErrorResponse}
    /\ DbCompareErrorResponse.error_type \notin {NotReadyResponse.error_type,
                                                  NoMatchFoundResponse.error_type}
    /\ \A r \in Requests :
           /\ (Answered(r) /\ face_database # <<>>
                   /\ Comparable(face_database, QueryOf(r)) = {})
                 => /\ response[r] = DbCompareErrorResponse
                    /\ ~FileExists(uploads, secure_filename(The(upload[r]).name))
           /\ response[r] = DbCompareErrorResponse
                 => /\ Answered(r) /\ face_database # <<>>
                    /\ Comparable(face_database, QueryOf(r)) = {}

\* An answered request against an index of two records, one without an
\* embedding and one of another dimension.
C18_Witness ==
    \E r \in Requests :
        /\ Answered(r) /\ Len(face_database) = 2
        /\ \E i, j \in 1..2 : /\ face_database[i].embedding = None
                               /\ face_database[j].embedding # None
                               /\ Len(The(face_database[j].embedding)) # Len(QueryOf(r))
        /\ response[r] = DbCompareErrorResponse

\* C19 as stated: a record whose embedding is a zero vector contributes no
\* distance, so an answered request gets the answer it would get from the
\* index with the zero vectors skipped like the records without an
\* embedding: the same matches in the same order, or a failure when nothing
\* else is comparable.
C19_Original ==
    \A r \in Requests :
        Answered(r) =>
            LET without == [i \in 1..Len(face_database) |->
                               IF /\ face_database[i].embedding # None
                                  /\ Dot(The(face_database[i].embedding),
                                         The(face_database[i].embedding)) = 0
                               THEN [face_database[i] EXCEPT !.embedding = None]
                               ELSE face_database[i]]
            IN  IF Distances(without, QueryOf(r), 1) = <<>>
                THEN ~response[r].success
                ELSE /\ response[r].success
                     /\ response[r].matches = TopMatches(without, QueryOf(r))

\* C20 as stated: in a successful response a record is ranked before every
\* record at the same distance that has a larger position in the index,
\* listed or not, and two answered requests with the same query get the
\* same list.
C20_Original ==
    \A r \in Requests :
        (Answered(r) /\ response[r].success) =>
            LET ms == response[r].matches
                db == face_database
                q == QueryOf(r)
                SameDistance(d1, d2) == /\ ~d1.nan /\ ~d2.nan
                                        /\ ~DistanceLess(d1, d2) /\ ~DistanceLess(d2, d1)
                PositionOf(k) == CHOOSE i \in 1..Len(db) :
                                     Basename(db[i].before_path) = ms[k].match_before_url[3]
            IN  /\ \A k1, k2 \in 1..Len(ms) :
                       (k1 < k2 /\ SameDistance(ms[k1].similarity, ms[k2].similarity))
                           => PositionOf(k1) < PositionOf(k2)
                /\ \A k \in 1..Len(ms) : \A j \in Comparable(db, q) :
                       (/\ \A k2 \in 1..Len(ms) : PositionOf(k2) # j
                        /\ SameDistance(ms[k].similarity, DistanceTo(db, q, j)))
                           => PositionOf(k) < j
                /\ \A r2 \in Requests :
                       (Answered(r2) /\ response[r2].success /\ QueryOf(r2) = q)
                           => response[r2].matches = ms

\* C21 as stated: when the query equals the stored embedding of a record of
\* the index, that record is the first match of the response and its
\* similarity is 1.
C21_Original ==
    \A r \in Requests :
        Answered(r) =>
            \A i \in 1..Len(face_database) :
                face_database[i].embedding = Some(QueryOf(r)) =>
                    /\ response[r].success
                    /\ response[r].matches[1].match_before_url[3]
                           = Basename(face_database[i].before_path)
                    /\ ~response[r].matches[1].similarity.nan
                    /\ response[r].matches[1].similarity.dot > 0
                    /\ response[r].matches[1].similarity.dot * response[r].matches[1].similarity.dot
                           = response[r].matches[1].similarity.nn

\* C22 as stated: every record of the shared index, whether a build
\* published it or the snapshot held it, has an embedding, and all the
\* embeddings of the index have one dimension.
C22_Original ==
    \A i, j \in 1..Len(face_database) :
        /\ face_database[i].embedding # None
        /\ face_database[j].embedding # None
        /\ Len(The(face_database[i].embedding)) = Len(The(face_database[j].embedding))

\* C23 as stated: no two records of the index have the same identifier, the
\* stem of the name of their before image, and no two of them hold the same
\* metadata entry.
C23_Original ==
    \A i, j \in 1..Len(face_database) :
        i # j =>
            /\ Splitext0(Basename(face_database[i].before_path))
                   # Splitext0(Basename(face_database[j].before_path))
            /\ face_database[i].metadata # None
                   => face_database[i].metadata # face_database[j].metadata

\* The request uploaded, under a name of its own, an image in which the
\* strict embedding finds no face.
NoFaceUpload(r) ==
    /\ upload[r] # None /\ The(upload[r]).part
    /\ allowed_file(The(upload[r]).name)
    /\ The(upload[r]).img.out \in {"ValueError", "empty"}

\* C24: a request whose upload has no detectable face never reaches the
\* scan of the index and holds no embedding; the index stays the one that
\* was loaded; and once the request is answered, the answer is the
\* detection failure and the uploaded file is gone from the upload folder.
C24_NoFaceNoScan ==
    \A r \in Requests :
        NoFaceUpload(r) =>
            /\ rpc[r] \in {"embed", "cleanup", "remove", "done"}
            /\ uploaded_embedding[r] = <<>>
            /\ face_database = Unpickle(cache_file.data) /\ database_loaded
            /\ rpc[r] = "done" =>
                   /\ response[r] = CouldNotProcessResponse
                   /\ ~FileExists(uploads, secure_filename(The(upload[r]).name))

\* A request with a faceless upload has been answered against a ready index.
C24_Witness ==
    \E r \in Requests :
        /\ NoFaceUpload(r) /\ rpc[r] = "done"
        /\ face_database # <<>>
        /\ response[r] = CouldNotProcessResponse

C27_Original ==
    \A l \in Loaders :
        (lpc[l] = "waiting") ~> (lpc[l] = "returned" /\ database_loaded /\ db_load_lock # l)

\* C27 amended: an invocation that has started eventually ends, by a return
\* with database_loaded set or by the exception of a failed listing, and
\* does not hold the lock then; and when the before folder has an image
\* that yields an embedding and no snapshot was loaded, the index is ready
\* once an invocation has returned, and stays ready.
C27_BuildCompletes ==
    /\ \A l \in Loaders :
           (lpc[l] = "waiting") ~>
               (/\ db_load_lock # l
                /\ \/ lpc[l] = "returned" /\ database_loaded
                   \/ lpc[l] = "raised")
    /\ [](((\E l \in Loaders : lpc[l] = "returned") /\ EmbeddedFiles # {} /\ ~loaded_from_cache)
              => IndexReady)
    /\ [][IndexReady => IndexReady']_vars

\* An invocation that was made during the build of another has returned, and
\* the index the build published is ready.
C27_Witness ==
    /\ \A l \in Loaders : lpc[l] = "returned"
    /\ \E l \in Loaders : called_busy[l]
    /\ db_load_lock = 0 /\ IndexReady /\ ~loaded_from_cache

C29_EmptySnapshotNeverReady ==
    /\ [][\A l \in Loaders :
              (lpc[l] = "save" /\ lpc'[l] = "returned" /\ faults' = faults
                   /\ face_database = <<>>) => cache_file' = CacheOf(<<>>)]_vars
    /\ [][(mainpc = "cache" /\ mainpc' # "cache" /\ cache_file = CacheOf(<<>>)) =>
              (loaded_from_cache' /\ database_loaded' /\ face_database' = <<>>
                   /\ mainpc' = "metadata")]_vars
    /\ []((loaded_from_cache /\ cache_file = CacheOf(<<>>)) =>
              /\ database_loaded /\ face_database = <<>>
              /\ \A l \in Loaders : lpc[l] = "idle"
              /\ \A r \in Requests :
                     /\ rpc[r] \in {"idle", "done"}
                     /\ rpc[r] = "done" => response[r] = NotReadyResponse)

\* The first run built an empty index from a folder without a face and wrote
\* its snapshot; an image with a face was put into the folder; the second
\* run loaded the snapshot and answered a request as not ready.
C29_Witness ==
    /\ starts = 2 /\ loaded_from_cache /\ mainpc = "serving"
    /\ written_index = Some(<<>>) /\ cache_file = CacheOf(<<>>)
    /\ EmbeddedFiles # {}
    /\ \E r \in Requests : rpc[r] = "done" /\ response[r] = NotReadyResponse

\* The request saved its upload: it carried a file part of an allowed name.
SavedUpload(r) ==
    /\ upload[r] # None /\ The(upload[r]).part
    /\ The(upload[r]).name # <<>> /\ allowed_file(The(upload[r]).name)

\* C30: a request that saved its upload and was answered with success has
\* left the file in the upload folder, under the name its uploaded_image_url
\* gives; one that was answered with a failure was answered with one of the
\* failures that follow the save, and its file is gone from the folder.
C30_FailureRemovesUpload ==
    \A r \in Requests :
        (rpc[r] = "done" /\ SavedUpload(r)) =>
            IF response[r].success
            THEN /\ FileExists(uploads, secure_filename(The(upload[r]).name))
                 /\ uploads[secure_filename(The(upload[r]).name)] = The(upload[r]).img
                 /\ response[r].uploaded_image_url
                        = Some(<<"uploads", secure_filename(The(upload[r]).name)>>)
            ELSE /\ response[r] \in {CouldNotProcessResponse, UnexpectedErrorResponse,
                                     DbCompareErrorResponse, InternalErrorResponse}
                 /\ ~FileExists(uploads, secure_filename(The(upload[r]).name))

\* One request was answered with matches and its file is in the folder;
\* another, whose embedding failed, was answered with the failure and its
\* file is gone.
C30_Witness ==
    \E r, q \in Requests :
        /\ rpc[r] = "done" /\ SavedUpload(r) /\ response[r].success
        /\ FileExists(uploads, secure_filename(The(upload[r]).name))
        /\ rpc[q] = "done" /\ SavedUpload(q) /\ response[q] = UnexpectedErrorResponse
        /\ ~FileExists(uploads, secure_filename(The(upload[q]).name))

====
